---- MODULE Spec2Model ----
(***************************************************************************)
(* Extraction-result orchestration and edit state of the PDF extraction    *)
(* front end: apiClient.processFile / parseCsvContent (api/client.ts),     *)
(* App.handleFileUpload, handleSaveMarkdown, handleSaveCsv (App.tsx) and    *)
(* the effective-value reads of CsvViewer.                                  *)
(*                                                                          *)
(* Text that the code scans character by character (CSV text, table cells,  *)
(* file paths) is a sequence of one-character strings.  Text the code only  *)
(* stores and compares (markdown, names, ids) is a string.  An optional     *)
(* field (x?: T, or a T | null state) is a sequence of length 0 or 1:       *)
(* <<>> is undefined/null, <<v>> is the value v.                            *)
(***************************************************************************)
EXTENDS Integers, Sequences, FiniteSets, TLC

\* ------------------------------------------------------------------ bounds
MaxUploads == 2      \* handleFileUpload invocations in one session
MaxTables  == 2      \* longest excel_files list a filterTables response carries

MaxSaves   == 2
MaxRows    == 1
Runs == 1..MaxUploads

\* ------------------------------------------------------- optional values
None == <<>>
Some(v) == <<v>>
IsSome(o) == o # <<>>
Get(o) == o[1]

\* ------------------------------------------------- parseCsvContent (pure)
IsSpace(c) == c \in {" ", "\n", "\t", "\r"}

RECURSIVE TrimStart(_)
TrimStart(s) ==
  IF s # <<>> /\ IsSpace(Head(s)) THEN TrimStart(Tail(s)) ELSE s

RECURSIVE TrimEnd(_)
TrimEnd(s) ==
  IF s # <<>> /\ IsSpace(s[Len(s)]) THEN TrimEnd(SubSeq(s, 1, Len(s) - 1)) ELSE s

\* A mutation of Trim: only the leading whitespace is removed
Trim_StartOnly(s) == TrimStart(s)

\* String.prototype.trim
Trim(s) == TrimEnd(TrimStart(s))

RECURSIVE SplitFrom(_, _, _)
SplitFrom(s, cur, acc) ==
  IF s = <<>> THEN Append(acc, cur)
  ELSE IF Head(s) = "\n" THEN SplitFrom(Tail(s), <<>>, Append(acc, cur))
  ELSE SplitFrom(Tail(s), Append(cur, Head(s)), acc)

\* A mutation of SplitLines: the empty lines are dropped
SplitLines_SkipsBlank(s) ==
  SelectSeq(SplitFrom(s, <<>>, <<>>), LAMBDA l : l # <<>>)

\* s.split('\n'): the empty text splits into one empty line
SplitLines(s) == SplitFrom(s, <<>>, <<>>)

RECURSIVE ParseRowFrom(_, _, _, _)
ParseRowFrom(line, result, current, inQuotes) ==
  IF line = <<>> THEN Append(result, Trim(current))
  ELSE LET char == Head(line) IN
       IF char = "\"" THEN ParseRowFrom(Tail(line), result, current, ~inQuotes)
       ELSE IF char = "," /\ ~inQuotes
            THEN ParseRowFrom(Tail(line), Append(result, Trim(current)), <<>>, inQuotes)
            ELSE ParseRowFrom(Tail(line), result, Append(current, char), inQuotes)

\* A mutation of parseRow: a comma ends the field inside quotes too
RECURSIVE ParseRowFrom_EveryComma(_, _, _)
ParseRowFrom_EveryComma(line, result, current) ==
  IF line = <<>> THEN Append(result, Trim(current))
  ELSE LET char == Head(line) IN
       IF char = "\"" THEN ParseRowFrom_EveryComma(Tail(line), result, current)
       ELSE IF char = ","
            THEN ParseRowFrom_EveryComma(Tail(line), Append(result, Trim(current)), <<>>)
            ELSE ParseRowFrom_EveryComma(Tail(line), result, Append(current, char))

parseRow_EveryComma(line) == ParseRowFrom_EveryComma(line, <<>>, <<>>)

\* A mutation of parseRow: inside quotes a doubled quote is one quote of
\* the field
RECURSIVE ParseRowFrom_Escaped(_, _, _, _)
ParseRowFrom_Escaped(line, result, current, inQuotes) ==
  IF line = <<>> THEN Append(result, Trim(current))
  ELSE LET char == Head(line) IN
       IF char = "\"" /\ inQuotes /\ Len(line) >= 2 /\ line[2] = "\""
       THEN ParseRowFrom_Escaped(Tail(Tail(line)), result, Append(current, char), inQuotes)
       ELSE IF char = "\"" THEN ParseRowFrom_Escaped(Tail(line), result, current, ~inQuotes)
       ELSE IF char = "," /\ ~inQuotes
            THEN ParseRowFrom_Escaped(Tail(line), Append(result, Trim(current)), <<>>, inQuotes)
            ELSE ParseRowFrom_Escaped(Tail(line), result, Append(current, char), inQuotes)

parseRow_EscapedQuote(line) == ParseRowFrom_Escaped(line, <<>>, <<>>, FALSE)

parseRow(line) == ParseRowFrom(line, <<>>, <<>>, FALSE)

\* A mutation of parseCsvContent: a quote left open on a line is still open
\* at the start of the next line
parseCsvContent_QuotesCarried(csvContent) ==
  LET lines == SplitLines(Trim(csvContent))
      quotesBefore(i) ==
        UNION {{<<k, j>> : j \in {j \in DOMAIN lines[k] : lines[k][j] = "\""}} :
                 k \in 1..(i - 1)}
      row(i) == ParseRowFrom(lines[i], <<>>, <<>>, Cardinality(quotesBefore(i)) % 2 = 1)
  IN IF Len(lines) = 0
     THEN [headers |-> <<>>, data |-> <<>>]
     ELSE [headers |-> row(1),
           data    |-> [i \in 1..(Len(lines) - 1) |-> row(i + 1)]]

parseCsvContent(csvContent) ==
  LET lines == SplitLines(Trim(csvContent)) IN
  IF Len(lines) = 0
  THEN [headers |-> <<>>, data |-> <<>>]
  ELSE [headers |-> parseRow(lines[1]),
        data    |-> [i \in 1..(Len(lines) - 1) |-> parseRow(lines[i + 1])]]

\* ------------------------------------------------ the remote collaborator
\* Files a user uploads: run u uploads UploadedFile(u).
UploadedFile(u) ==
  IF u % 2 = 1 THEN [name |-> "a.pdf", mime |-> <<"application", "pdf">>]
               ELSE [name |-> "b.png", mime |-> <<"image", "png">>]

\* merged_path of the /upload response, and the text /download returns
MergedPath(file) == IF file.name = "a.pdf" THEN "a" ELSE "b"
ServerMarkdown(documentName) == "# " \o documentName

\* Table locations a /filter_tables response can name, in extraction order
PathA == <<"o", "/", "t", "1">>
PathB == <<"o", "\\", "t", "2">>
PathC == <<"t", "3">>
Paths == <<PathB, PathA, PathC>>

\* What /download_table returns for each location:
\*   a,b\n1,2        x\n"p,q", r        (empty)
ServerCsv(filename) ==
  CASE filename = <<"t", "1">> -> <<"a", ",", "b", "\n", "1", ",", "2">>
    [] filename = <<"t", "2">> -> <<"x", "\n", "\"", "p", ",", "q", "\"", ",", " ", "r">>
    [] OTHER -> <<>>

\* excel_files of a response: the first n locations, n up to MaxTables
ExcelFileLists ==
  {SubSeq(Paths, 1, n) : n \in 0..(IF MaxTables < Len(Paths) THEN MaxTables ELSE Len(Paths))}

\* --------------------------------------------------------------- state
VARIABLES
  currentFile,   \* App state: the ProcessedFile on screen, optional (null at start)
  isProcessing,  \* App state: the processing flag
  pc,            \* per run: the await at which handleFileUpload/processFile is suspended
  call,          \* per run: state of each mandatory/optional request of processFile
  excelFiles,    \* per run: tableResult.excel_files, once filterTables has answered
  fetches,       \* per run: state of each downloadTable promise, by request index
  settled,       \* per run: request indexes of the fetches that succeeded, in completion order
  docStatus,     \* history: per document id, the status of the last value given to setCurrentFile
  panel,         \* ResultsPanel state: activeView, selectedCsvId, csvVersion; crashed once a render threw
  viewer,        \* CsvViewer state: isEditing, editHeaders, editData (as at mount while not mounted)
  toast,         \* the kind of the last notification requested, optional
  tidy,          \* the transform handler: isTransforming, and the request in flight, optional
  exportedCsv,   \* the table handleDownloadCsv was given, optional
  csvText,       \* CSV text: what a download holds, or what parseCsvContent is given, optional
  parseResult    \* what parseCsvContent returned for csvText, optional

vars == <<currentFile, isProcessing, pc, call, excelFiles, fetches, settled, docStatus,
          panel, viewer, toast, tidy, exportedCsv, csvText, parseResult>>
runVars == <<pc, call, excelFiles, fetches, settled>>
uiVars == <<panel, viewer, toast, tidy>>
textVars == <<exportedCsv, csvText, parseResult>>

Ops == {"uploadFile", "downloadMarkdown", "filterTables"}

\* --------------------------------------------- processFile, pure parts
\* filePath.split(/[/\\]/).pop() || filePath
Filename(filePath) ==
  LET seps == {i \in 1..Len(filePath) : filePath[i] \in {"/", "\\"}}
      last == IF seps = {} THEN filePath
              ELSE SubSeq(filePath, (CHOOSE i \in seps : \A j \in seps : j <= i) + 1,
                          Len(filePath))
  IN IF last # <<>> THEN last ELSE filePath

\* What parseCsvContent returns for the text at each location
ParsedAt ==
  [p \in {Paths[i] : i \in DOMAIN Paths} |-> parseCsvContent(ServerCsv(Filename(p)))]

\* One element of the map over excel_files: download, parse, package
CsvFileData(filePath) ==
  LET filename == Filename(filePath)
      parsed   == ParsedAt[filePath]
  IN [filename |-> filename, headers |-> parsed.headers, data |-> parsed.data]

\* A mutation of PromiseAll: results collected as the fetches complete
PromiseAll_ByCompletion(files, order) ==
  [k \in 1..Len(order) |-> CsvFileData(files[order[k]])]

\* Promise.all over the mapped fetches: the results by request index
PromiseAll(files, order) ==
  [i \in 1..Len(files) |-> CsvFileData(files[i])]

\* A mutation of StepAfter: table extraction requested before the text fetch
StepAfter_Reordered(op) ==
  CASE op = "uploadFile" -> "filterTables"
    [] op = "filterTables" -> "downloadMarkdown"
    [] OTHER -> "downloadTables"

\* The request processFile issues once `op` has succeeded
StepAfter(op) ==
  CASE op = "uploadFile" -> "downloadMarkdown"
    [] op = "downloadMarkdown" -> "filterTables"
    [] OTHER -> "downloadTables"

\* The ExtractionResult processFile returns
ExtractionResult(documentName, csvFiles) ==
  [markdown |-> [content |-> ServerMarkdown(documentName),
                 filename |-> documentName \o ".md"],
   csv_files |-> csvFiles,
   document_name |-> documentName]

\* ------------------------------------------- handleFileUpload, pure parts
\* A mutation of FileId: the id taken from something two uploads can share
FileId_Shared(u) == 1

\* `${Date.now()}-${Math.random()...}`: unique per invocation
FileId(u) == u

processingFile(u) ==
  [id |-> FileId(u),
   name |-> UploadedFile(u).name,
   type |-> IF UploadedFile(u).mime[1] = "image" THEN "image" ELSE "pdf",
   uploadedAt |-> u,
   status |-> "processing",
   markdown |-> None,
   csvFiles |-> None]

\* A mutation of CsvId: the tables are numbered from one
CsvId_FromOne(idx) == "csv-" \o ToString(idx + 1)

\* `csv-${idx}`
CsvId(idx) == "csv-" \o ToString(idx)

completedFile(u, result) ==
  [processingFile(u) EXCEPT
     !.status = "completed",
     !.markdown = Some([content |-> result.markdown.content,
                        filename |-> result.markdown.filename,
                        editedContent |-> None]),
     !.csvFiles = Some([i \in 1..Len(result.csv_files) |->
                          [id |-> CsvId(i - 1),
                           filename |-> result.csv_files[i].filename,
                           data |-> result.csv_files[i].data,
                           headers |-> result.csv_files[i].headers,
                           editedData |-> None,
                           editedHeaders |-> None]])]

\* A mutation of errorFile: the failure is only notified, the status is left alone
errorFile_NotMarked(u) == processingFile(u)

errorFile(u) == [processingFile(u) EXCEPT !.status = "error"]

\* ------------------------------------------------- ResultsPanel rendering
\* const csvFiles = file?.csvFiles ?? []
PanelCsvFiles(file) ==
  IF IsSome(file) /\ IsSome(Get(file).csvFiles) THEN Get(Get(file).csvFiles) ELSE <<>>

\* csvFiles.find(c => c.id === csvId): the first match, or undefined
FindCsv(file, csvId) ==
  LET csvFiles == PanelCsvFiles(file)
      hits == {i \in DOMAIN csvFiles : csvFiles[i].id = csvId}
  IN IF hits = {} THEN None
     ELSE Some(csvFiles[CHOOSE i \in hits : \A j \in hits : i <= j])

\* The effect that selects the first table while nothing is selected
AutoSelect(selectedCsvId, file) ==
  IF Len(PanelCsvFiles(file)) > 0 /\ selectedCsvId = ""
  THEN PanelCsvFiles(file)[1].id
  ELSE selectedCsvId

\* The key of the CsvViewer element the panel renders, when it renders one:
\* the file is completed, the csv tab is the active one (the content of the
\* other tab is not mounted) and selectedCsvId is not empty
ViewerKey(p, file) ==
  IF /\ ~p.crashed
     /\ IsSome(file) /\ Get(file).status = "completed"
     /\ p.activeView = "csv" /\ p.selectedCsvId # ""
  THEN Some(<<p.selectedCsvId, p.csvVersion>>)
  ELSE None

\* csv={csvFiles.find(...)!}: with no such table the viewer reads a property
\* of undefined while rendering, and the render throws
RenderThrows(p, file) ==
  IsSome(ViewerKey(p, file)) /\ FindCsv(file, p.selectedCsvId) = None

\* CsvViewer's state at mount
freshViewer ==
  [isEditing |-> FALSE, editHeaders |-> <<>>, editData |-> <<>>,
   isTransforming |-> FALSE, transformError |-> None]

\* The panel and the viewer once React has rendered file2 and run the effect:
\* the viewer keeps its state while an element of the same key stays mounted
Render(file2, panel2, viewer2) ==
  LET selected == [panel2 EXCEPT !.selectedCsvId = AutoSelect(@, file2)]
      rendered == [selected EXCEPT !.crashed = RenderThrows(selected, file2)]
  IN /\ panel' = rendered
     /\ viewer' = IF /\ ~rendered.crashed
                     /\ IsSome(ViewerKey(rendered, file2))
                     /\ ViewerKey(rendered, file2) = ViewerKey(panel, currentFile)
                  THEN viewer2
                  ELSE freshViewer

\* A state update of App followed by the render it causes; docStatus records
\* the status each document id was last given. Once a render has thrown the
\* tree is unmounted and state updates are dropped.
SetState(next, panel2, viewer2) ==
  IF panel.crashed
  THEN UNCHANGED <<currentFile, docStatus, panel, viewer>>
  ELSE /\ currentFile' = next
       /\ docStatus' = IF IsSome(next)
                       THEN [docStatus EXCEPT ![Get(next).id] = Get(next).status]
                       ELSE docStatus
       /\ Render(next, panel2, viewer2)

\* setCurrentFile
SetCurrentFile(next) == SetState(next, panel, viewer)

\* toast.success / toast.error / toast.info: the kind is what is kept
Toast(kind, message) == toast' = Some(kind)

\* --------------------------------------------------- edit-state updaters
\* Array.prototype.slice(0, n)
Slice0(seq, n) == SubSeq(seq, 1, IF n < Len(seq) THEN n ELSE Len(seq))

\* A mutation of SaveMarkdownUpdater: the prev.markdown guard is missing
SaveMarkdownUpdater_Unguarded(prev, content) ==
  IF IsSome(prev)
  THEN Some([Get(prev) EXCEPT
               !.markdown = Some([content |-> "", filename |-> "",
                                  editedContent |-> Some(content)])])
  ELSE prev

\* The updater handleSaveMarkdown passes to setCurrentFile
SaveMarkdownUpdater(prev, content) ==
  IF IsSome(prev) /\ IsSome(Get(prev).markdown)
  THEN Some([Get(prev) EXCEPT
               !.markdown = Some([Get(Get(prev).markdown) EXCEPT
                                    !.editedContent = Some(content)])])
  ELSE prev

\* A mutation of SaveCsvUpdater: the saved value replaces the table's own
\* headers and data
SaveCsvUpdater_OverwritesOriginal(prev, csvId, headers, data) ==
  IF IsSome(prev) /\ IsSome(Get(prev).csvFiles)
  THEN LET files == Get(Get(prev).csvFiles) IN
       Some([Get(prev) EXCEPT
               !.csvFiles = Some(
                 [i \in DOMAIN files |->
                    IF files[i].id = csvId
                    THEN [files[i] EXCEPT
                            !.data = [r \in DOMAIN data |->
                                        Slice0(data[r], Len(files[i].headers))],
                            !.headers = Slice0(headers, Len(files[i].headers))]
                    ELSE files[i]])])
  ELSE prev

\* A mutation of SaveCsvUpdater: only the rows are stored
SaveCsvUpdater_DataOnly(prev, csvId, headers, data) ==
  IF IsSome(prev) /\ IsSome(Get(prev).csvFiles)
  THEN LET files == Get(Get(prev).csvFiles) IN
       Some([Get(prev) EXCEPT
               !.csvFiles = Some(
                 [i \in DOMAIN files |->
                    IF files[i].id = csvId
                    THEN [files[i] EXCEPT !.editedData = Some(data)]
                    ELSE files[i]])])
  ELSE prev

\* A mutation of SaveCsvUpdater: the id is not compared, every table takes
\* the saved value
SaveCsvUpdater_EveryTable(prev, csvId, headers, data) ==
  IF IsSome(prev) /\ IsSome(Get(prev).csvFiles)
  THEN LET files == Get(Get(prev).csvFiles) IN
       Some([Get(prev) EXCEPT
               !.csvFiles = Some(
                 [i \in DOMAIN files |->
                    [files[i] EXCEPT
                       !.editedData =
                          Some([r \in DOMAIN data |->
                                  Slice0(data[r], Len(files[i].headers))]),
                       !.editedHeaders =
                          Some(Slice0(headers, Len(files[i].headers)))]])])
  ELSE prev

\* The updater handleSaveCsv passes to setCurrentFile
SaveCsvUpdater(prev, csvId, headers, data) ==
  IF IsSome(prev) /\ IsSome(Get(prev).csvFiles)
  THEN LET files == Get(Get(prev).csvFiles) IN
       Some([Get(prev) EXCEPT
               !.csvFiles = Some(
                 [i \in DOMAIN files |->
                    IF files[i].id = csvId
                    THEN [files[i] EXCEPT
                            !.editedData =
                               Some([r \in DOMAIN data |->
                                       Slice0(data[r], Len(files[i].headers))]),
                            !.editedHeaders =
                               Some(Slice0(headers, Len(files[i].headers)))]
                    ELSE files[i]])])
  ELSE prev

\* CsvViewer's display values outside edit mode: csv.editedX || csv.X
\* (an array, empty or not, is truthy)
EffectiveHeaders(csv) == IF IsSome(csv.editedHeaders) THEN Get(csv.editedHeaders) ELSE csv.headers
EffectiveData(csv) == IF IsSome(csv.editedData) THEN Get(csv.editedData) ELSE csv.data

\* ----------------------------------------------------------------- inputs
MarkdownInputs == {"", "edited"}

\* (headers, data) pairs a caller saves: one narrow, one wide and ragged
TableInputs ==
  { [headers |-> << <<"h">> >>,
     data    |-> << << <<"v">> >> >>],
    [headers |-> << <<"h">>, <<"i">>, <<"j">> >>,
     data    |-> << << <<"v">>, <<"w">>, <<"x">> >>, << <<"y">> >> >>] }

\* ids a caller names: those of the tables a document can have, and one more
CsvIds == {CsvId(i) : i \in 0..MaxTables}

\* ------------------------------------------------------------------- Init
\* App, ResultsPanel and CsvViewer as mounted, and no upload started
AppInit ==
  /\ currentFile = None
  /\ isProcessing = FALSE
  /\ pc = [u \in Runs |-> "idle"]
  /\ call = [u \in Runs |-> [op \in Ops |-> "none"]]
  /\ excelFiles = [u \in Runs |-> <<>>]
  /\ fetches = [u \in Runs |-> <<>>]
  /\ settled = [u \in Runs |-> <<>>]
  /\ docStatus = [u \in Runs |-> "none"]
  /\ panel = [activeView |-> "markdown", selectedCsvId |-> "", csvVersion |-> 0,
              crashed |-> FALSE]
  /\ viewer = freshViewer
  /\ toast = None
  /\ tidy = [isTransforming |-> FALSE, request |-> None]

Init ==
  /\ AppInit
  /\ exportedCsv = None /\ csvText = None /\ parseResult = None

\* ------------------------------------------------- handleFileUpload steps
\* The locals of the processFile calls after a step
RunLocals(call2, files2, fetches2, settled2) ==
  /\ call' = call2
  /\ excelFiles' = files2
  /\ fetches' = fetches2
  /\ settled' = settled2

\* processFile has returned: the rest of the try block, then finally
CompleteRun(u, csvFiles) ==
  /\ SetCurrentFile(Some(completedFile(u,
        ExtractionResult(MergedPath(UploadedFile(u)), csvFiles))))
  /\ Toast("success", "Extraction completed!")
  /\ UNCHANGED tidy
  /\ isProcessing' = FALSE
  /\ pc' = [pc EXCEPT ![u] = "done"]

\* A mutation of FailRun: the catch block without the finally block
FailRun_NoFinally(u) ==
  /\ SetCurrentFile(Some(errorFile(u)))
  /\ Toast("error", "Failed to process file")
  /\ UNCHANGED <<tidy, isProcessing>>
  /\ pc' = [pc EXCEPT ![u] = "done"]

\* processFile has thrown: the catch block, then finally
FailRun(u) ==
  /\ SetCurrentFile(Some(errorFile(u)))
  /\ Toast("error", "Failed to process file")
  /\ UNCHANGED tidy
  /\ isProcessing' = FALSE
  /\ pc' = [pc EXCEPT ![u] = "done"]

\* A mutation of OnTableError: the tables fetched so far are kept
OnTableError_KeepsFetched(u) ==
  CompleteRun(u, [k \in 1..Len(settled[u]) |-> CsvFileData(excelFiles[u][settled[u][k]])])

\* A mutation of OnTableError: no try/catch around the table phase
OnTableError_Rethrown(u) == FailRun(u)

\* The catch around steps 3 and 4 of processFile: csvFiles is still [], and
\* processFile returns
OnTableError(u) == CompleteRun(u, <<>>)

\* The user picks a file: everything up to the first await (the fetch of /upload)
HandleFileUpload(u) ==
  /\ UNCHANGED textVars
  /\ pc[u] = "idle"
  /\ \A v \in Runs : v < u => pc[v] # "idle"
  /\ isProcessing' = TRUE
  /\ SetCurrentFile(Some(processingFile(u)))
  /\ Toast("info", "Processing file... This may take a moment.")
  /\ UNCHANGED tidy
  /\ pc' = [pc EXCEPT ![u] = "uploadFile"]
  /\ RunLocals([call EXCEPT ![u]["uploadFile"] = "pending"], excelFiles, fetches, settled)

\* /upload answers ok: processFile goes on to its next request
UploadFileOk(u) ==
  /\ UNCHANGED textVars
  /\ pc[u] = "uploadFile" /\ call[u]["uploadFile"] = "pending"
  /\ pc' = [pc EXCEPT ![u] = StepAfter("uploadFile")]
  /\ UNCHANGED <<currentFile, isProcessing, docStatus, uiVars>>
  /\ RunLocals([call EXCEPT ![u]["uploadFile"] = "ok",
                            ![u][StepAfter("uploadFile")] = "pending"],
               excelFiles, fetches, settled)

\* /upload fails: uploadFile throws, processFile rejects
UploadFileFails(u) ==
  /\ UNCHANGED textVars
  /\ pc[u] = "uploadFile" /\ call[u]["uploadFile"] = "pending"
  /\ FailRun(u)
  /\ RunLocals([call EXCEPT ![u]["uploadFile"] = "fail"], excelFiles, fetches, settled)

\* /download answers ok
DownloadMarkdownOk(u) ==
  /\ UNCHANGED textVars
  /\ pc[u] = "downloadMarkdown" /\ call[u]["downloadMarkdown"] = "pending"
  /\ pc' = [pc EXCEPT ![u] = StepAfter("downloadMarkdown")]
  /\ UNCHANGED <<currentFile, isProcessing, docStatus, uiVars>>
  /\ RunLocals([call EXCEPT ![u]["downloadMarkdown"] = "ok",
                            ![u][StepAfter("downloadMarkdown")] = "pending"],
               excelFiles, fetches, settled)

\* A mutation of DownloadMarkdownFails: the text fetch treated as optional
DownloadMarkdownFails_Tolerated(u) ==
  /\ UNCHANGED textVars
  /\ pc[u] = "downloadMarkdown" /\ call[u]["downloadMarkdown"] = "pending"
  /\ CompleteRun(u, <<>>)
  /\ RunLocals([call EXCEPT ![u]["downloadMarkdown"] = "fail"], excelFiles, fetches, settled)

\* /download fails: downloadMarkdown throws, processFile rejects
DownloadMarkdownFails(u) ==
  /\ UNCHANGED textVars
  /\ pc[u] = "downloadMarkdown" /\ call[u]["downloadMarkdown"] = "pending"
  /\ FailRun(u)
  /\ RunLocals([call EXCEPT ![u]["downloadMarkdown"] = "fail"], excelFiles, fetches, settled)

\* /filter_tables answers with excel_files = files: every downloadTable fetch
\* is issued by the map, or with no file processFile returns at once
FilterTablesOk(u, files) ==
  /\ UNCHANGED textVars
  /\ pc[u] = "filterTables" /\ call[u]["filterTables"] = "pending"
  /\ IF Len(files) > 0
     THEN /\ pc' = [pc EXCEPT ![u] = "downloadTables"]
          /\ UNCHANGED <<currentFile, isProcessing, docStatus, uiVars>>
     ELSE CompleteRun(u, <<>>)
  /\ RunLocals([call EXCEPT ![u]["filterTables"] = "ok"],
               [excelFiles EXCEPT ![u] = files],
               [fetches EXCEPT ![u] = [i \in 1..Len(files) |-> "pending"]],
               settled)

\* /filter_tables fails: caught inside processFile
FilterTablesFails(u) ==
  /\ UNCHANGED textVars
  /\ pc[u] = "filterTables" /\ call[u]["filterTables"] = "pending"
  /\ OnTableError(u)
  /\ RunLocals([call EXCEPT ![u]["filterTables"] = "fail"], excelFiles, fetches, settled)

\* A mutation of DownloadTableOk: the first fetch that succeeds resolves the
\* wait
DownloadTableOk_First(u, i) ==
  /\ UNCHANGED textVars
  /\ i \in DOMAIN fetches[u] /\ fetches[u][i] = "pending"
  /\ IF pc[u] = "downloadTables"
     THEN CompleteRun(u, <<CsvFileData(excelFiles[u][i])>>)
     ELSE UNCHANGED <<currentFile, isProcessing, pc, docStatus, uiVars>>
  /\ RunLocals(call, excelFiles, [fetches EXCEPT ![u][i] = "ok"],
               [settled EXCEPT ![u] = Append(@, i)])

\* /download_table answers ok for request i: it is parsed; when it was the
\* last one outstanding and none has failed, Promise.all resolves
DownloadTableOk(u, i) ==
  /\ UNCHANGED textVars
  /\ i \in DOMAIN fetches[u] /\ fetches[u][i] = "pending"
  /\ LET fetches2 == [fetches EXCEPT ![u][i] = "ok"]
         settled2 == [settled EXCEPT ![u] = Append(@, i)]
     IN /\ IF pc[u] = "downloadTables"
              /\ \A j \in DOMAIN fetches2[u] : fetches2[u][j] = "ok"
           THEN CompleteRun(u, PromiseAll(excelFiles[u], settled2[u]))
           ELSE UNCHANGED <<currentFile, isProcessing, pc, docStatus, uiVars>>
        /\ RunLocals(call, excelFiles, fetches2, settled2)

\* A mutation of DownloadTableFails: the rejection escapes processFile
DownloadTableFails_Unhandled(u, i) ==
  /\ UNCHANGED textVars
  /\ i \in DOMAIN fetches[u] /\ fetches[u][i] = "pending"
  /\ IF pc[u] = "downloadTables"
     THEN FailRun(u)
     ELSE UNCHANGED <<currentFile, isProcessing, pc, docStatus, uiVars>>
  /\ RunLocals(call, excelFiles, [fetches EXCEPT ![u][i] = "fail"], settled)

\* /download_table fails for request i: Promise.all rejects on the first
\* failure, whatever is still outstanding; a later failure finds nobody waiting
DownloadTableFails(u, i) ==
  /\ UNCHANGED textVars
  /\ i \in DOMAIN fetches[u] /\ fetches[u][i] = "pending"
  /\ IF pc[u] = "downloadTables"
     THEN OnTableError(u)
     ELSE UNCHANGED <<currentFile, isProcessing, pc, docStatus, uiVars>>
  /\ RunLocals(call, excelFiles, [fetches EXCEPT ![u][i] = "fail"], settled)

\* ----------------------------------------------------------- save handlers
handleSaveMarkdown(content) ==
  /\ UNCHANGED textVars
  /\ SetCurrentFile(SaveMarkdownUpdater(currentFile, content))
  /\ Toast("success", "Markdown saved!")
  /\ UNCHANGED <<isProcessing, pc, tidy>>
  /\ RunLocals(call, excelFiles, fetches, settled)

handleSaveCsv(csvId, headers, data) ==
  /\ UNCHANGED textVars
  /\ SetCurrentFile(SaveCsvUpdater(currentFile, csvId, headers, data))
  /\ Toast("success", "CSV saved!")
  /\ UNCHANGED <<isProcessing, pc, tidy>>
  /\ RunLocals(call, excelFiles, fetches, settled)

\* The upload control hands a file to handleFileUpload; it is given
\* isProcessing, and its user picks a file while nothing is being processed
FileUpload_onUpload(u) ==
  /\ ~panel.crashed
  /\ ~isProcessing
  /\ HandleFileUpload(u)

\* -------------------------------------------------- ResultsPanel handlers
\* The csv tab can be chosen while the file has tables; the tabs are there
\* while the file is completed
setActiveView(v) ==
  /\ ~panel.crashed
  /\ IsSome(currentFile) /\ Get(currentFile).status = "completed"
  /\ v = "csv" => Len(PanelCsvFiles(currentFile)) > 0
  /\ Render(currentFile, [panel EXCEPT !.activeView = v], viewer)
  /\ UNCHANGED <<currentFile, isProcessing, docStatus, toast, tidy, runVars, textVars>>

\* One button per table of the file, in the csv tab
setSelectedCsvId(csvId) ==
  /\ ~panel.crashed
  /\ IsSome(currentFile) /\ Get(currentFile).status = "completed"
  /\ panel.activeView = "csv"
  /\ IsSome(FindCsv(currentFile, csvId))
  /\ Render(currentFile, [panel EXCEPT !.selectedCsvId = csvId], viewer)
  /\ UNCHANGED <<currentFile, isProcessing, docStatus, toast, tidy, runVars, textVars>>

\* ----------------------------------------------------- CsvViewer handlers
\* a || b for arrays: an array, empty or not, is truthy
OrArray(edited, original) == IF IsSome(edited) THEN Get(edited) ELSE original

\* a || b for strings: the empty string is falsy
OrString(edited, original) ==
  IF IsSome(edited) /\ Get(edited) # "" THEN Get(edited) ELSE original

\* MarkdownViewer's displayContent, and the content handleDownloadMarkdown
\* writes: markdown.editedContent || markdown.content
displayContent(markdown) == OrString(markdown.editedContent, markdown.content)
DownloadedMarkdown(markdown) == OrString(markdown.editedContent, markdown.content)

\* A mutation of displayHeaders: the headers override is not looked at
displayHeaders_Original(v, csv) == IF v.isEditing THEN v.editHeaders ELSE csv.headers

displayHeaders(v, csv) ==
  IF v.isEditing THEN v.editHeaders ELSE OrArray(csv.editedHeaders, csv.headers)

displayData(v, csv) ==
  IF v.isEditing THEN v.editData ELSE OrArray(csv.editedData, csv.data)

\* The viewer is on screen, and the table it was given
ViewerMounted == IsSome(ViewerKey(panel, currentFile))
ViewerCsv == Get(FindCsv(currentFile, panel.selectedCsvId))

\* A viewer handler that only sets the viewer's own state
SetViewer(viewer2) ==
  /\ viewer' = viewer2
  /\ UNCHANGED <<currentFile, isProcessing, docStatus, panel, toast, tidy, runVars, textVars>>

handleStartEdit ==
  /\ ViewerMounted /\ ~viewer.isEditing
  /\ SetViewer([viewer EXCEPT !.editHeaders = displayHeaders(viewer, ViewerCsv),
                              !.editData = displayData(viewer, ViewerCsv),
                              !.isEditing = TRUE])

handleCancel ==
  /\ ViewerMounted /\ viewer.isEditing
  /\ SetViewer([viewer EXCEPT !.isEditing = FALSE])

handleHeaderChange(index, value) ==
  /\ ViewerMounted /\ viewer.isEditing
  /\ index \in DOMAIN viewer.editHeaders
  /\ SetViewer([viewer EXCEPT !.editHeaders[index] = value])

\* A mutation of CellWrite: the buffer is the table's own array and the cell
\* is written in the row object itself
CellWrite_InPlace(prev, shown, rowIndex, colIndex, value) ==
  [buffer |-> [prev EXCEPT ![rowIndex][colIndex] = value],
   shown  |-> IF rowIndex \in DOMAIN shown /\ colIndex \in DOMAIN shown[rowIndex]
              THEN [shown EXCEPT ![rowIndex][colIndex] = value]
              ELSE shown]

\* const next = prev.map(row => [...row]); next[rowIndex][colIndex] = value:
\* the write lands in a row of next, and the rows the table shows are
\* other objects
CellWrite(prev, shown, rowIndex, colIndex, value) ==
  [buffer |-> [prev EXCEPT ![rowIndex][colIndex] = value],
   shown  |-> shown]

\* The file with the rows its table `csvId` shows (csv.editedData || csv.data)
\* holding `rows`
WithShownRows(file, csvId, rows) ==
  LET csvFiles == PanelCsvFiles(file) IN
  Some([Get(file) EXCEPT
          !.csvFiles = Some(
            [i \in DOMAIN csvFiles |->
               IF csvFiles[i].id # csvId THEN csvFiles[i]
               ELSE IF IsSome(csvFiles[i].editedData)
                    THEN [csvFiles[i] EXCEPT !.editedData = Some(rows)]
                    ELSE [csvFiles[i] EXCEPT !.data = rows]])])

handleCellChange(rowIndex, colIndex, value) ==
  /\ ViewerMounted /\ viewer.isEditing
  /\ rowIndex \in DOMAIN viewer.editData
  /\ colIndex \in DOMAIN viewer.editData[rowIndex]
  /\ LET written == CellWrite(viewer.editData,
                              OrArray(ViewerCsv.editedData, ViewerCsv.data),
                              rowIndex, colIndex, value)
     IN /\ viewer' = [viewer EXCEPT !.editData = written.buffer]
        /\ currentFile' = WithShownRows(currentFile, panel.selectedCsvId, written.shown)
  /\ UNCHANGED <<isProcessing, docStatus, panel, toast, tidy, runVars, textVars>>

\* new Array(editHeaders.length).fill('')
handleAddRow ==
  /\ ViewerMounted /\ viewer.isEditing
  /\ Len(viewer.editData) < MaxRows
  /\ SetViewer([viewer EXCEPT
                  !.editData = Append(@, [i \in 1..Len(viewer.editHeaders) |-> <<>>])])

handleDeleteRow(rowIndex) ==
  /\ ViewerMounted /\ viewer.isEditing
  /\ rowIndex \in DOMAIN viewer.editData
  /\ SetViewer([viewer EXCEPT
                  !.editData = [i \in 1..(Len(@) - 1) |->
                                  IF i < rowIndex THEN @[i] ELSE @[i + 1]]])

\* A mutation of BumpVersion: the panel forgets the increment
BumpVersion_Skipped(p) == p

\* setCsvVersion(v => v + 1)
BumpVersion(p) == [p EXCEPT !.csvVersion = @ + 1]

\* A mutation of handleSave: csvVersion is incremented only when the save
\* changed the document
handleSave_BumpsOnChange ==
  /\ ViewerMounted /\ viewer.isEditing
  /\ panel.csvVersion < MaxSaves
  /\ LET next == SaveCsvUpdater(currentFile, panel.selectedCsvId,
                                viewer.editHeaders, viewer.editData)
     IN SetState(next,
                 IF next = currentFile THEN panel ELSE BumpVersion(panel),
                 [viewer EXCEPT !.isEditing = FALSE])
  /\ Toast("success", "CSV saved!")
  /\ UNCHANGED <<isProcessing, tidy, runVars, textVars>>

\* CsvViewer.handleSave: onSave is the panel's handleSaveCsv for the selected
\* table, which calls App's handleSaveCsv and then bumps csvVersion; then
\* setIsEditing(false)
handleSave ==
  /\ ViewerMounted /\ viewer.isEditing
  /\ panel.csvVersion < MaxSaves
  /\ SetState(SaveCsvUpdater(currentFile, panel.selectedCsvId,
                             viewer.editHeaders, viewer.editData),
              BumpVersion(panel),
              [viewer EXCEPT !.isEditing = FALSE])
  /\ Toast("success", "CSV saved!")
  /\ UNCHANGED <<isProcessing, tidy, runVars, textVars>>

\* MarkdownViewer.handleSave with the text typed: onSave is App's
\* handleSaveMarkdown
MarkdownViewer_handleSave(content) ==
  /\ ~panel.crashed
  /\ IsSome(currentFile) /\ Get(currentFile).status = "completed"
  /\ IsSome(Get(currentFile).markdown)
  /\ panel.activeView = "markdown"
  /\ handleSaveMarkdown(content)

\* --------------------------------------------- the tidy transform handler
\* What the remote tidy transform may answer to a request: the rows as they
\* were sent, or a reshaped table
TidyResults(request) ==
  { [headers |-> request.headers, data |-> request.data],
    [headers |-> << <<"k">>, <<"v">> >>,
     data    |-> << << <<"a">>, <<"1">> >>, << <<"b">>, <<"2">> >> >>] }

\* The body handleTransform2Tidy sends for a table
TidyRequest(csv) ==
  [data |-> OrArray(csv.editedData, csv.data), headers |-> csv.headers]

\* A mutation of AfterTransformError: the failure handler resets the table
AfterTransformError_Resets(file) ==
  LET csvFiles == PanelCsvFiles(file) IN
  IF Len(csvFiles) = 0 THEN file
  ELSE Some([Get(file) EXCEPT
               !.csvFiles = Some([csvFiles EXCEPT ![1].editedData = None,
                                                  ![1].editedHeaders = None])])

\* The file after the catch block: the handler only logs and notifies
AfterTransformError(file) == file

\* The file after a response: the handler only notifies and logs the result
AfterTransform(file, result) == file

\* The Transform2Tidy button: always the first table of the file
handleTransform2Tidy ==
  /\ ~panel.crashed
  /\ IsSome(currentFile) /\ ~tidy.isTransforming
  /\ Len(PanelCsvFiles(currentFile)) > 0
  /\ tidy' = [isTransforming |-> TRUE,
              request |-> Some(TidyRequest(PanelCsvFiles(currentFile)[1]))]
  /\ UNCHANGED <<currentFile, isProcessing, docStatus, panel, viewer, toast, runVars, textVars>>

\* /transform2tidy answers ok
Transform2TidyOk(result) ==
  /\ IsSome(tidy.request)
  /\ result \in TidyResults(Get(tidy.request))
  /\ currentFile' = AfterTransform(currentFile, result)
  /\ Toast("success", "Data transformed to tidy format!")
  /\ tidy' = [isTransforming |-> FALSE, request |-> None]
  /\ UNCHANGED <<isProcessing, docStatus, panel, viewer, runVars, textVars>>

\* /transform2tidy fails: transform2tidy throws
Transform2TidyFails ==
  /\ IsSome(tidy.request)
  /\ currentFile' = AfterTransformError(currentFile)
  /\ Toast("error", "Failed to transform data")
  /\ tidy' = [isTransforming |-> FALSE, request |-> None]
  /\ UNCHANGED <<isProcessing, docStatus, panel, viewer, runVars, textVars>>

\* ----------------------------------------------------------------- inputs
\* What a user types in a header or a cell
CellInputs == { <<"z">> }

\* The header and the cell a user types in
EditedHeader == 1
EditedCell == <<1, 1>>

\* The answers the remote may give to the request in flight
TidyAnswers == IF IsSome(tidy.request) THEN TidyResults(Get(tidy.request)) ELSE {}

\* ------------------------------------------------------------------- Next
Next ==
  \/ \E u \in Runs : HandleFileUpload(u)
  \/ \E u \in Runs : UploadFileOk(u)
  \/ \E u \in Runs : UploadFileFails(u)
  \/ \E u \in Runs : DownloadMarkdownOk(u)
  \/ \E u \in Runs : DownloadMarkdownFails(u)
  \/ \E u \in Runs, files \in ExcelFileLists : FilterTablesOk(u, files)
  \/ \E u \in Runs : FilterTablesFails(u)
  \/ \E u \in Runs, i \in 1..MaxTables : DownloadTableOk(u, i)
  \/ \E u \in Runs, i \in 1..MaxTables : DownloadTableFails(u, i)
  \/ \E content \in MarkdownInputs : handleSaveMarkdown(content)
  \/ \E csvId \in CsvIds, t \in TableInputs : handleSaveCsv(csvId, t.headers, t.data)

\* The whole App: uploads, remote responses and the save handlers
Spec == Init /\ [][Next]_vars

\* The orchestrator alone: uploads and remote responses, no edit
NextUpload ==
  \/ \E u \in Runs : HandleFileUpload(u)
  \/ \E u \in Runs : UploadFileOk(u)
  \/ \E u \in Runs : UploadFileFails(u)
  \/ \E u \in Runs : DownloadMarkdownOk(u)
  \/ \E u \in Runs : DownloadMarkdownFails(u)
  \/ \E u \in Runs, files \in ExcelFileLists : FilterTablesOk(u, files)
  \/ \E u \in Runs : FilterTablesFails(u)
  \/ \E u \in Runs, i \in 1..MaxTables : DownloadTableOk(u, i)
  \/ \E u \in Runs, i \in 1..MaxTables : DownloadTableFails(u, i)

SpecUpload == Init /\ [][NextUpload]_vars

\* The App as its user drives it: uploads, remote responses, the tabs, the
\* viewers and the transform button
NextEdit ==
  \/ \E u \in Runs : FileUpload_onUpload(u)
  \/ \E u \in Runs : UploadFileOk(u)
  \/ \E u \in Runs : UploadFileFails(u)
  \/ \E u \in Runs : DownloadMarkdownOk(u)
  \/ \E u \in Runs : DownloadMarkdownFails(u)
  \/ \E u \in Runs, files \in ExcelFileLists : FilterTablesOk(u, files)
  \/ \E u \in Runs : FilterTablesFails(u)
  \/ \E u \in Runs, i \in 1..MaxTables : DownloadTableOk(u, i)
  \/ \E u \in Runs, i \in 1..MaxTables : DownloadTableFails(u, i)
  \/ \E v \in {"markdown", "csv"} : setActiveView(v)
  \/ \E csvId \in CsvIds : setSelectedCsvId(csvId)
  \/ handleStartEdit
  \/ handleCancel
  \/ \E value \in CellInputs : handleHeaderChange(EditedHeader, value)
  \/ \E value \in CellInputs : handleCellChange(EditedCell[1], EditedCell[2], value)
  \/ handleAddRow
  \/ \E r \in 1..MaxRows : handleDeleteRow(r)
  \/ handleSave
  \/ \E content \in MarkdownInputs : MarkdownViewer_handleSave(content)

SpecEdit == Init /\ [][NextEdit]_vars

\* The App with its transform button: uploads, remote responses, the tabs,
\* edits saved from the viewer and the tidy transform
NextTidy ==
  \/ \E u \in Runs : FileUpload_onUpload(u)
  \/ \E u \in Runs : UploadFileOk(u)
  \/ \E u \in Runs : UploadFileFails(u)
  \/ \E u \in Runs : DownloadMarkdownOk(u)
  \/ \E u \in Runs : DownloadMarkdownFails(u)
  \/ \E u \in Runs, files \in ExcelFileLists : FilterTablesOk(u, files)
  \/ \E u \in Runs : FilterTablesFails(u)
  \/ \E u \in Runs, i \in 1..MaxTables : DownloadTableOk(u, i)
  \/ \E u \in Runs, i \in 1..MaxTables : DownloadTableFails(u, i)
  \/ \E v \in {"markdown", "csv"} : setActiveView(v)
  \/ \E csvId \in CsvIds : setSelectedCsvId(csvId)
  \/ handleStartEdit
  \/ \E value \in CellInputs : handleCellChange(EditedCell[1], EditedCell[2], value)
  \/ handleSave
  \/ \E content \in MarkdownInputs : MarkdownViewer_handleSave(content)
  \/ handleTransform2Tidy
  \/ \E result \in TidyAnswers : Transform2TidyOk(result)
  \/ Transform2TidyFails

SpecTidy == Init /\ [][NextTidy]_vars

\* ------------------------------------------------------ reading the state
IsCurrent(u) == IsSome(currentFile) /\ Get(currentFile).id = u
Tables(file) == IF IsSome(file.csvFiles) THEN Get(file.csvFiles) ELSE <<>>
HasTable(file, csvId) == \E i \in DOMAIN Tables(file) : Tables(file)[i].id = csvId
TableOf(file, csvId) ==
  Tables(file)[CHOOSE i \in DOMAIN Tables(file) : Tables(file)[i].id = csvId]
AnyFetch(u, st) == \E i \in DOMAIN fetches[u] : fetches[u][i] = st
AllFetched(u) == fetches[u] # <<>> /\ \A i \in DOMAIN fetches[u] : fetches[u][i] = "ok"

\* ================================================================== claims

\* C1: in one run of processFile, downloadMarkdown is issued only once
\* uploadFile has succeeded, filterTables only once downloadMarkdown has
\* succeeded, and no downloadTable before the filterTables response arrived.
C1_CallOrder ==
  \A u \in Runs :
    /\ call[u]["downloadMarkdown"] # "none" => call[u]["uploadFile"] = "ok"
    /\ call[u]["filterTables"] # "none" => call[u]["downloadMarkdown"] = "ok"
    /\ fetches[u] # <<>> => call[u]["filterTables"] = "ok"

C1_Witness == \E u \in Runs : Len(fetches[u]) = MaxTables /\ AnyFetch(u, "ok")

\* C2: when uploadFile fails, no other request of that run is ever issued
\* and the run's document was last set with status error.
C2_SubmitFailureIsFatal ==
  \A u \in Runs :
    call[u]["uploadFile"] = "fail" =>
      /\ call[u]["downloadMarkdown"] = "none"
      /\ call[u]["filterTables"] = "none"
      /\ fetches[u] = <<>>
      /\ pc[u] = "done"
      /\ docStatus[u] = "error"
      /\ IsCurrent(u) => Get(currentFile).status = "error"

C2_Witness == \E u \in Runs : call[u]["uploadFile"] = "fail" /\ IsCurrent(u)

\* C3: when downloadMarkdown fails, the document has status error and
\* neither markdown nor csvFiles; filterTables is never asked.
C3_TextFailureIsFatal ==
  \A u \in Runs :
    call[u]["downloadMarkdown"] = "fail" =>
      /\ call[u]["filterTables"] = "none"
      /\ fetches[u] = <<>>
      /\ pc[u] = "done"
      /\ docStatus[u] = "error"
      /\ IsCurrent(u) =>
           /\ Get(currentFile).status = "error"
           /\ Get(currentFile).markdown = None
           /\ Get(currentFile).csvFiles = None

C3_Witness == \E u \in Runs : call[u]["downloadMarkdown"] = "fail" /\ IsCurrent(u)

\* C4: when uploadFile and downloadMarkdown succeed and filterTables fails,
\* the document is completed, has its markdown and has zero tables.
C4_TableExtractionOptional ==
  \A u \in Runs :
    call[u]["filterTables"] = "fail" =>
      /\ pc[u] = "done"
      /\ docStatus[u] = "completed"
      /\ IsCurrent(u) =>
           /\ Get(currentFile).status = "completed"
           /\ IsSome(Get(currentFile).markdown)
           /\ Get(Get(currentFile).markdown).content =
                ServerMarkdown(MergedPath(UploadedFile(u)))
           /\ Get(currentFile).csvFiles = Some(<<>>)

C4_Witness == \E u \in Runs : call[u]["filterTables"] = "fail" /\ IsCurrent(u)

\* C5: when all N fetches succeed, in whatever order they complete, the
\* i-th table of the document is the parse of the i-th requested location.
C5_RequestOrder ==
  \A u \in Runs :
    (pc[u] = "done" /\ AllFetched(u) /\ IsCurrent(u)) =>
      LET tables == Tables(Get(currentFile)) IN
      /\ Len(tables) = Len(excelFiles[u])
      /\ \A i \in DOMAIN tables :
           LET name == Filename(excelFiles[u][i]) IN
           /\ tables[i].filename = name
           /\ tables[i].headers = parseCsvContent(ServerCsv(name)).headers
           /\ tables[i].data = parseCsvContent(ServerCsv(name)).data

C5_Witness ==
  \E u \in Runs :
    /\ pc[u] = "done" /\ AllFetched(u) /\ IsCurrent(u)
    /\ Len(settled[u]) >= 2 /\ settled[u][1] > settled[u][2]
    /\ Tables(Get(currentFile))[1].filename = Filename(PathB)
    /\ Tables(Get(currentFile))[2].headers = << <<"a">>, <<"b">> >>

\* C6: a failed table fetch, filterTables having succeeded, does not fail
\* the upload: the document is completed.
C6_TableFetchFailureNotFatal ==
  \A u \in Runs :
    AnyFetch(u, "fail") =>
      /\ call[u]["filterTables"] = "ok"
      /\ pc[u] = "done"
      /\ docStatus[u] = "completed"
      /\ IsCurrent(u) => Get(currentFile).status = "completed"

C6_Witness == \E u \in Runs : AnyFetch(u, "fail") /\ IsCurrent(u)

\* The tables a drop-the-failed-one policy would keep: the fetched ones, in
\* request order
RECURSIVE FetchedInOrder(_, _)
FetchedInOrder(u, i) ==
  IF i > Len(fetches[u]) THEN <<>>
  ELSE (IF fetches[u][i] = "ok" THEN <<excelFiles[u][i]>> ELSE <<>>)
       \o FetchedInOrder(u, i + 1)

OneFailedOthersFetched(u) ==
  /\ Cardinality({i \in DOMAIN fetches[u] : fetches[u][i] = "fail"}) = 1
  /\ \A i \in DOMAIN fetches[u] : fetches[u][i] \in {"ok", "fail"}

\* C7 as stated: when one of N fetches fails and the others succeed, the
\* document holds the N-1 fetched tables in request order.
C7_OnlyFailedTableDropped ==
  \A u \in Runs :
    (OneFailedOthersFetched(u) /\ IsCurrent(u)) =>
      LET kept == FetchedInOrder(u, 1)
          tables == Tables(Get(currentFile)) IN
      /\ Len(tables) = Len(kept)
      /\ \A i \in DOMAIN tables : tables[i].filename = Filename(kept[i])

\* C7 as amended: when a table fetch fails, the whole batch is dropped: the
\* document is completed with zero tables, fetched ones included.
C7_BatchDropped ==
  \A u \in Runs :
    (AnyFetch(u, "fail") /\ IsCurrent(u)) =>
      /\ Get(currentFile).status = "completed"
      /\ Get(currentFile).csvFiles = Some(<<>>)

C7_Witness ==
  \E u \in Runs :
    /\ OneFailedOthersFetched(u) /\ IsCurrent(u)
    /\ AnyFetch(u, "ok")
    /\ settled[u] # <<>> /\ fetches[u][1] = "ok"

\* C8: a document is created with status processing, its status changes at
\* most once, to completed or error, and a completed or error document
\* never changes status again.
C8_StatusTerminal ==
  [][\A u \in Runs :
       /\ docStatus[u] = "none" => docStatus'[u] \in {"none", "processing"}
       /\ docStatus[u] = "processing" =>
            docStatus'[u] \in {"processing", "completed", "error"}
       /\ docStatus[u] \in {"completed", "error"} => docStatus'[u] = docStatus[u]
       /\ IsCurrent(u) => Get(currentFile).status = docStatus[u]]_vars

C8_Witness ==
  /\ \E u \in Runs : docStatus[u] = "error"
  /\ \E u \in Runs : docStatus[u] = "completed" /\ IsCurrent(u)
                     /\ IsSome(Get(Get(currentFile).markdown).editedContent)

\* C9: a completed document has exactly one markdown and a list of tables;
\* a processing or error document has neither.
C9_ArtifactsMatchStatus ==
  IsSome(currentFile) =>
    LET f == Get(currentFile) IN
    /\ f.status \in {"processing", "completed", "error"}
    /\ f.status = "completed" => Len(f.markdown) = 1 /\ Len(f.csvFiles) = 1
    /\ f.status \in {"processing", "error"} => f.markdown = None /\ f.csvFiles = None

C9_Witness ==
  /\ IsSome(currentFile)
  /\ Get(currentFile).status = "completed"
  /\ IsSome(Get(Get(currentFile).markdown).editedContent)
  /\ \E i \in DOMAIN Tables(Get(currentFile)) :
       IsSome(Tables(Get(currentFile))[i].editedData)
  /\ \E u \in Runs : docStatus[u] = "error"

\* C10 as stated: after handleSaveCsv(id, H, R) on an existing table id the
\* effective headers and rows of that table are exactly H and R.
C10_SaveTableExact ==
  [][\A csvId \in CsvIds, t \in TableInputs :
       (handleSaveCsv(csvId, t.headers, t.data)
          /\ IsSome(currentFile) /\ HasTable(Get(currentFile), csvId)) =>
         LET csv == TableOf(Get(currentFile'), csvId) IN
         /\ EffectiveHeaders(csv) = t.headers
         /\ EffectiveData(csv) = t.data]_vars

\* ----------------------------------------------- reading the edit state
\* The completed document on screen
Completed == IsSome(currentFile) /\ Get(currentFile).status = "completed"
FileTables == PanelCsvFiles(currentFile)
FileMarkdown == Get(Get(currentFile).markdown)

\* C11 as stated: the text the viewer displays and the text the export
\* writes are the override whenever one has been saved, the empty string
\* included, and the original only when none has.
C11_EffectiveText ==
  Completed =>
    LET md == FileMarkdown
        effective == IF IsSome(md.editedContent) THEN Get(md.editedContent)
                     ELSE md.content
    IN /\ displayContent(md) = effective
       /\ DownloadedMarkdown(md) = effective

\* C12: whatever is saved, edited in the viewer or cancelled, the markdown
\* content and every table's filename, headers and data stay what
\* processFile returned for the document.
C12_OriginalsUnchanged ==
  Completed =>
    LET u == Get(currentFile).id IN
    /\ FileMarkdown.content = ServerMarkdown(MergedPath(UploadedFile(u)))
    /\ \A i \in DOMAIN FileTables :
         /\ FileTables[i].filename = CsvFileData(excelFiles[u][i]).filename
         /\ FileTables[i].headers = CsvFileData(excelFiles[u][i]).headers
         /\ FileTables[i].data = CsvFileData(excelFiles[u][i]).data

C12_Witness ==
  /\ Completed /\ ViewerMounted /\ viewer.isEditing
  /\ IsSome(FileMarkdown.editedContent)
  /\ ~IsSome(ViewerCsv.editedData)
  /\ viewer.editData # ViewerCsv.data /\ viewer.editHeaders # ViewerCsv.headers
  /\ \E i \in DOMAIN FileTables : IsSome(FileTables[i].editedData)

C14_OverridePair ==
  \A i \in DOMAIN FileTables :
    IsSome(FileTables[i].editedHeaders) <=> IsSome(FileTables[i].editedData)

C14_Witness ==
  /\ Completed /\ toast = Some("success") /\ IsSome(tidy.request)
  /\ \E i \in DOMAIN FileTables :
       IsSome(FileTables[i].editedHeaders) /\ IsSome(FileTables[i].editedData)
  /\ \E i \in DOMAIN FileTables :
       ~IsSome(FileTables[i].editedHeaders) /\ ~IsSome(FileTables[i].editedData)

\* C15 as stated: handleSaveCsv for an id that no table of a completed
\* document on screen has is notified as an error, not as a success.
C15_UnknownIdIsError ==
  [][\A csvId \in CsvIds, t \in TableInputs :
       (handleSaveCsv(csvId, t.headers, t.data)
          /\ ~(Completed /\ IsSome(FindCsv(currentFile, csvId))))
       => toast' = Some("error")]_vars

\* C16 as stated: the rows sent to the tidy transform are the effective rows
\* of the table the transform is asked for, here the table on screen, and
\* never those of another table.
C16_SendsNamedTable ==
  [][(handleTransform2Tidy /\ ViewerMounted) =>
       Get(tidy'.request).data =
         (IF IsSome(ViewerCsv.editedData) THEN Get(ViewerCsv.editedData)
          ELSE ViewerCsv.data)]_vars

\* C17 as stated: when the transform answers, its output is the new
\* override of the transformed table: the effective headers and rows read
\* afterwards are the answer's.
C17_OutputBecomesOverride ==
  [][\A result \in TidyAnswers :
       (Transform2TidyOk(result) /\ Len(FileTables) > 0) =>
         LET csv == PanelCsvFiles(currentFile')[1] IN
         /\ csv.editedHeaders = Some(result.headers)
         /\ csv.editedData = Some(result.data)]_vars

\* C18: when the transform fails the document, overrides included, is as
\* before, csvVersion is not incremented, and an error is notified.
C18_TransformFailureLeavesState ==
  [][Transform2TidyFails =>
       /\ currentFile' = currentFile
       /\ panel'.csvVersion = panel.csvVersion
       /\ toast' = Some("error")]_vars

C18_Witness ==
  /\ Completed /\ toast = Some("error") /\ ~tidy.isTransforming
  /\ panel.csvVersion >= 1
  /\ IsSome(FileTables[1].editedData) /\ IsSome(FileTables[1].editedHeaders)
  /\ Get(FileTables[1].editedData) # FileTables[1].data

C20_ViewerShowsEffective ==
  (ViewerMounted /\ ~viewer.isEditing) =>
    LET csv == ViewerCsv IN
    /\ displayHeaders(viewer, csv) =
         (IF IsSome(csv.editedHeaders) THEN Get(csv.editedHeaders) ELSE csv.headers)
    /\ displayData(viewer, csv) =
         (IF IsSome(csv.editedData) THEN Get(csv.editedData) ELSE csv.data)

C20_Witness ==
  /\ ViewerMounted /\ ~viewer.isEditing
  /\ IsSome(ViewerCsv.editedHeaders)
  /\ Get(ViewerCsv.editedHeaders) # ViewerCsv.headers
  /\ Get(ViewerCsv.editedData) # ViewerCsv.data
  /\ displayHeaders(viewer, ViewerCsv)[1] \in CellInputs

\* C21 as stated: a save made while the transform of another table is in
\* flight and that transform both survive. When the transform answers, its
\* table holds the answer and the text and every other table are as the save
\* left them; a save of another table made while the transform is in flight
\* leaves the transformed table alone.
C21_SaveAndTransformBothKept ==
  [][/\ \A result \in TidyAnswers :
          (Transform2TidyOk(result) /\ Len(FileTables) >= 2) =>
            LET after == PanelCsvFiles(currentFile') IN
            /\ after[1].editedHeaders = Some(result.headers)
            /\ after[1].editedData = Some(result.data)
            /\ \A i \in 2..Len(FileTables) : after[i] = FileTables[i]
            /\ Get(currentFile').markdown = Get(currentFile).markdown
     /\ (handleSave /\ tidy.isTransforming
           /\ panel.selectedCsvId # FileTables[1].id) =>
          PanelCsvFiles(currentFile')[1] = FileTables[1]]_vars

\* ------------------------------------------------ parseCsvContent, applied
MaxLen == 5      \* longest CSV text given to parseCsvContent

\* The characters the parser tells apart: a plain one, the separator, the
\* quote, a blank and the line break
CsvChars == {"a", ",", "\"", " ", "\n"}
CsvTexts == UNION {[1..n -> CsvChars] : n \in 0..MaxLen}

\* const parsed = apiClient.parseCsvContent(csvContent)
Parse ==
  /\ IsSome(csvText) /\ parseResult = None
  /\ parseResult' = Some(parseCsvContent(Get(csvText)))
  /\ UNCHANGED <<currentFile, isProcessing, docStatus, uiVars, runVars, exportedCsv, csvText>>

InitParse ==
  /\ AppInit
  /\ exportedCsv = None
  /\ csvText \in {Some(t) : t \in CsvTexts}
  /\ parseResult = None

NextParse == Parse

\* The parser alone, on every text up to MaxLen characters
SpecParse == InitParse /\ [][NextParse]_vars

\* ------------------------------------------------- reading a parse result
Parsed == IsSome(parseResult)
Blank(text) == \A i \in DOMAIN text : IsSpace(text[i])

\* The header followed by the rows
ParsedLines == <<Get(parseResult).headers>> \o Get(parseResult).data

\* C22 as stated: for a text that is empty or all whitespace the parser
\* returns no header and no row.
C22_BlankGivesEmpty ==
  (Parsed /\ Blank(Get(csvText))) =>
    Get(parseResult) = [headers |-> <<>>, data |-> <<>>]

\* The text from its first to its last character that is not whitespace
Strip(s) ==
  LET solid == {i \in DOMAIN s : ~IsSpace(s[i])} IN
  IF solid = {} THEN <<>>
  ELSE SubSeq(s, CHOOSE i \in solid : \A j \in solid : i <= j,
                 CHOOSE i \in solid : \A j \in solid : j <= i)

\* The line breaks of a text, and its n-th line
Breaks(t) == {i \in DOMAIN t : t[i] = "\n"}
NthBreak(t, n) == CHOOSE i \in Breaks(t) : Cardinality({j \in Breaks(t) : j <= i}) = n
NthLine(t, n) ==
  SubSeq(t, IF n = 1 THEN 1 ELSE NthBreak(t, n - 1) + 1,
            IF n = Cardinality(Breaks(t)) + 1 THEN Len(t) ELSE NthBreak(t, n) - 1)

\* The trimmed text given to the parser, and the number of its lines
ParsedText == Strip(Get(csvText))
LineCount == Cardinality(Breaks(ParsedText)) + 1

\* C23: of the k lines of the trimmed text the first gives the headers and
\* the k-1 others give the rows, one row per line and in order, an empty
\* line included.
C23_FirstLineHeaderRestRows ==
  Parsed =>
    /\ Get(parseResult).headers = parseRow(NthLine(ParsedText, 1))
    /\ Len(Get(parseResult).data) = LineCount - 1
    /\ \A i \in 1..(LineCount - 1) :
         Get(parseResult).data[i] = parseRow(NthLine(ParsedText, i + 1))

C23_Witness ==
  /\ Parsed
  /\ LineCount = 3
  /\ Get(parseResult).headers = << <<"a">> >>
  /\ Get(parseResult).data = << << <<>> >>, << <<"a">> >> >>

\* Quotes before position j of a line; the commas that end a field and
\* those that stay in one
QuotesBefore(line, j) == Cardinality({i \in 1..(j - 1) : line[i] = "\""})
SplittingCommas(line) ==
  {j \in DOMAIN line : line[j] = "," /\ QuotesBefore(line, j) % 2 = 0}
KeptCommas(line) ==
  {j \in DOMAIN line : line[j] = "," /\ QuotesBefore(line, j) % 2 = 1}

\* The characters of all the fields of a row, one after the other
RECURSIVE Flat(_)
Flat(fields) == IF fields = <<>> THEN <<>> ELSE Head(fields) \o Flat(Tail(fields))
Count(seq, c) == Cardinality({i \in DOMAIN seq : seq[i] = c})

\* C24: each line gives one field more than it has commas after an even
\* number of quotes, whatever the other lines give, and the commas after an
\* odd number of quotes are in the fields.
C24_FieldCount ==
  Parsed =>
    \A n \in 1..LineCount :
      LET line == NthLine(ParsedText, n) IN
      /\ Len(ParsedLines[n]) = 1 + Cardinality(SplittingCommas(line))
      /\ Count(Flat(ParsedLines[n]), ",") = Cardinality(KeptCommas(line))

C24_Witness ==
  /\ Parsed
  /\ Get(parseResult).headers = << <<",">> >>
  /\ Len(Get(parseResult).data) = 1
  /\ Len(Get(parseResult).data[1]) = 2

\* C25: no field starts or ends with whitespace, quoted or not; a line
\* without a comma gives the one field made of its characters other than
\* quotes, from the first to the last that is not whitespace, the
\* whitespace between them kept.
C25_FieldsTrimmed ==
  Parsed =>
    \A n \in 1..LineCount :
      LET line == NthLine(ParsedText, n) IN
      /\ \A f \in DOMAIN ParsedLines[n] :
           LET field == ParsedLines[n][f] IN
           field # <<>> => ~IsSpace(field[1]) /\ ~IsSpace(field[Len(field)])
      /\ Count(line, ",") = 0 =>
           ParsedLines[n] = << Strip(SelectSeq(line, LAMBDA c : c # "\"")) >>

C25_Witness ==
  /\ Parsed
  /\ Get(csvText) = <<"\"", " ", "a", " ", "a">>
  /\ Get(parseResult).headers = << <<"a", " ", "a">> >>

\* C26: no field holds a double quote, and the quotes of a line give no
\* character to its fields, a quote doubled inside a quoted field included.
C26_NoQuoteInFields ==
  Parsed =>
    \A n \in 1..LineCount :
      LET line == NthLine(ParsedText, n) IN
      /\ Count(Flat(ParsedLines[n]), "\"") = 0
      /\ Len(Flat(ParsedLines[n])) <=
           Len(line) - Count(line, "\"") - Cardinality(SplittingCommas(line))

C26_Witness ==
  /\ Parsed
  /\ Get(csvText) = <<"\"", "a", "\"", "\"", "a">>
  /\ Get(parseResult).headers = << <<"a", "a">> >>

\* ------------------------------------------------------ handleDownloadCsv
MaxCols == 2     \* most cells a saved header row or data row holds

\* Array.prototype.join
RECURSIVE JoinWith(_, _)
JoinWith(items, sep) ==
  IF Len(items) = 0 THEN <<>>
  ELSE IF Len(items) = 1 THEN items[1]
  ELSE JoinWith(SubSeq(items, 1, Len(items) - 1), sep) \o <<sep>> \o items[Len(items)]

\* A mutation of DownloadCsvContent: the first line is always csv.headers
DownloadCsvContent_OriginalHeaders(csv) ==
  LET data == OrArray(csv.editedData, csv.data) IN
  JoinWith([i \in 1..(Len(data) + 1) |->
              JoinWith(IF i = 1 THEN csv.headers ELSE data[i - 1], ",")], "\n")

\* A mutation of DownloadCsvContent: a value holding a comma is written
\* between quotes
DownloadCsvContent_Quoted(csv) ==
  LET headers == OrArray(csv.editedHeaders, csv.headers)
      data    == OrArray(csv.editedData, csv.data)
      Quoted(r) == [c \in DOMAIN r |->
                      IF \E k \in DOMAIN r[c] : r[c][k] = ","
                      THEN <<"\"">> \o r[c] \o <<"\"">> ELSE r[c]]
  IN JoinWith([i \in 1..(Len(data) + 1) |->
                 JoinWith(Quoted(IF i = 1 THEN headers ELSE data[i - 1]), ",")], "\n")

\* content = [headers, ...data].map(r => r.join(',')).join('\n')
DownloadCsvContent(csv) ==
  LET headers == OrArray(csv.editedHeaders, csv.headers)
      data    == OrArray(csv.editedData, csv.data)
  IN JoinWith([i \in 1..(Len(data) + 1) |->
                 JoinWith(IF i = 1 THEN headers ELSE data[i - 1], ",")], "\n")

\* The download button of a table: the content of the file written
handleDownloadCsv ==
  /\ IsSome(exportedCsv) /\ csvText = None
  /\ csvText' = Some(DownloadCsvContent(Get(exportedCsv)))
  /\ UNCHANGED <<currentFile, isProcessing, docStatus, uiVars, runVars, exportedCsv, parseResult>>

\* Values a saved table holds: a plain one, one with a comma, one with a
\* comma between quotes
ExportCells == { <<"a">>, <<"a", ",", "b">>, <<"\"", ",", "\"">> }
ExportRows == UNION {[1..n -> ExportCells] : n \in 0..MaxCols}
ExportData == UNION {[1..n -> ExportRows] : n \in 0..MaxRows}

\* Tables as handleFileUpload makes them from what the parser returned
OriginalTables ==
  {Get(completedFile(1, ExtractionResult("a", <<CsvFileData(p)>>)).csvFiles)[1] :
     p \in {PathA, PathB}}

\* The tables a document can hold: an original one, as it is or with a saved
\* override
ExportTables ==
  OriginalTables \cup
  {[t EXCEPT !.editedHeaders = Some(h), !.editedData = Some(d)] :
     t \in OriginalTables, h \in ExportRows, d \in ExportData}

InitExport ==
  /\ AppInit
  /\ exportedCsv \in {Some(t) : t \in ExportTables}
  /\ csvText = None
  /\ parseResult = None

NextExport ==
  \/ handleDownloadCsv
  \/ Parse

\* The download of a table, and the parser applied to what was written
SpecExport == InitExport /\ [][NextExport]_vars

\* --------------------------------------------------- reading an export
Exported == IsSome(exportedCsv) /\ IsSome(csvText)
ExportedHeaders ==
  IF IsSome(Get(exportedCsv).editedHeaders) THEN Get(Get(exportedCsv).editedHeaders)
  ELSE Get(exportedCsv).headers
ExportedData ==
  IF IsSome(Get(exportedCsv).editedData) THEN Get(Get(exportedCsv).editedData)
  ELSE Get(exportedCsv).data

\* The cells of a row with a comma between two of them
RECURSIVE CommaJoined(_)
CommaJoined(row) ==
  IF row = <<>> THEN <<>>
  ELSE IF Tail(row) = <<>> THEN Head(row)
  ELSE Head(row) \o <<",">> \o CommaJoined(Tail(row))

HasComma(row) == \E c \in DOMAIN row : Count(row[c], ",") > 0

\* C27: the text written for a table has one line for the effective headers
\* and then one line per effective row, in order, each the cells joined by
\* commas and nothing else; the override is used when there is one.
C27_ExportIsCommaJoined ==
  Exported =>
    /\ Cardinality(Breaks(Get(csvText))) = Len(ExportedData)
    /\ NthLine(Get(csvText), 1) = CommaJoined(ExportedHeaders)
    /\ \A i \in DOMAIN ExportedData :
         NthLine(Get(csvText), i + 1) = CommaJoined(ExportedData[i])

C27_Witness ==
  /\ Exported
  /\ IsSome(Get(exportedCsv).editedHeaders)
  /\ Len(ExportedHeaders) = 2 /\ ExportedHeaders # Get(exportedCsv).headers
  /\ Len(ExportedData) >= 1 /\ ExportedData # Get(exportedCsv).data
  /\ HasComma(ExportedData[1])

\* C28: when an exported header or cell holds a comma, the parser applied to
\* the exported text does not give back the exported headers and rows.
C28_CommaBreaksRoundTrip ==
  (Exported /\ Parsed
     /\ (HasComma(ExportedHeaders) \/ \E i \in DOMAIN ExportedData : HasComma(ExportedData[i])))
  => \/ Get(parseResult).headers # ExportedHeaders
     \/ Get(parseResult).data # ExportedData

C28_Witness ==
  /\ Exported /\ Parsed
  /\ ~HasComma(ExportedHeaders)
  /\ ExportedData # <<>> /\ HasComma(ExportedData[1])
  /\ Get(parseResult).headers = ExportedHeaders
  /\ Len(Get(parseResult).data) = Len(ExportedData)
  /\ Len(Get(parseResult).data[1]) > Len(ExportedData[1])

\* C29 as stated: the tables of a completed document have the ids table-0,
\* table-1, ..., the i-th in extraction order having id table-i.
C29_TableIds ==
  \A u \in Runs :
    (IsCurrent(u) /\ Get(currentFile).status = "completed") =>
      \A i \in DOMAIN Tables(Get(currentFile)) :
        Tables(Get(currentFile))[i].id = "table-" \o ToString(i - 1)

\* C29 as amended: the tables of a completed document have the ids csv-0,
\* csv-1, ..., the i-th in extraction order having id csv-i.
C29_CsvIds ==
  \A u \in Runs :
    (IsCurrent(u) /\ Get(currentFile).status = "completed") =>
      \A i \in DOMAIN Tables(Get(currentFile)) :
        /\ Tables(Get(currentFile))[i].id = "csv-" \o ToString(i - 1)
        /\ Tables(Get(currentFile))[i].filename = Filename(excelFiles[u][i])

C29_Witness ==
  \E u \in Runs :
    /\ IsCurrent(u) /\ Get(currentFile).status = "completed"
    /\ Len(Tables(Get(currentFile))) = MaxTables
    /\ Len(settled[u]) = MaxTables /\ settled[u][1] = MaxTables
    /\ Tables(Get(currentFile))[MaxTables].id = "csv-" \o ToString(MaxTables - 1)

\* ------------------------------------------------- remote calls that return
\* Some pending request of run u is answered, with success or with failure
Responds(u) ==
  \/ UploadFileOk(u) \/ UploadFileFails(u)
  \/ DownloadMarkdownOk(u) \/ DownloadMarkdownFails(u)
  \/ (\E files \in ExcelFileLists : FilterTablesOk(u, files)) \/ FilterTablesFails(u)
  \/ \E i \in 1..MaxTables : DownloadTableOk(u, i) \/ DownloadTableFails(u, i)

\* The orchestrator with a remote side that answers every request
SpecUploadFair == SpecUpload /\ \A u \in Runs : WF_vars(Responds(u))

\* C30: when every remote call returns, each document an upload created with
\* status processing is later given status completed or error.
C30_EveryDocumentSettles ==
  \A u \in Runs :
    (docStatus[u] = "processing") ~> (docStatus[u] \in {"completed", "error"})

C30_Witness ==
  \E u, v \in Runs :
    /\ u # v
    /\ docStatus[u] = "error" /\ call[u]["downloadMarkdown"] = "fail"
    /\ docStatus[v] = "completed" /\ AnyFetch(v, "fail") /\ AnyFetch(v, "pending")
    /\ pc[u] = "done" /\ pc[v] = "done"

\* C31 as stated: no document is set to completed, and no run of processFile
\* is over, while a table fetch of that run is pending, a fetch having failed
\* or not.
C31_AwaitsAllFetches ==
  \A u \in Runs :
    (pc[u] = "done" \/ docStatus[u] = "completed") => ~AnyFetch(u, "pending")

\* C31 as amended: while no table fetch has failed the run waits for all of
\* them, and a document never holds tables while a fetch of its run is
\* pending; at the first failure the run is over with zero tables, whatever
\* is still pending.
C31_AwaitsAllUnlessOneFails ==
  \A u \in Runs :
    /\ (fetches[u] # <<>> /\ ~AnyFetch(u, "fail")) =>
         (pc[u] = "done" <=> ~AnyFetch(u, "pending"))
    /\ AnyFetch(u, "fail") => pc[u] = "done" /\ docStatus[u] = "completed"
    /\ (AnyFetch(u, "pending") /\ IsCurrent(u)) =>
         Tables(Get(currentFile)) = <<>>

C31_Witness ==
  \E u \in Runs :
    /\ IsCurrent(u) /\ Get(currentFile).status = "completed"
    /\ Len(fetches[u]) = MaxTables
    /\ fetches[u][1] = "pending" /\ fetches[u][MaxTables] = "fail"
    /\ Get(currentFile).csvFiles = Some(<<>>)

\* What of a document no save may change: its id, name, type, date and
\* status, and of each table, in order, the id, filename, headers and data
Fixed(file) ==
  IF file = None THEN None
  ELSE Some([id |-> Get(file).id, name |-> Get(file).name, type |-> Get(file).type,
             uploadedAt |-> Get(file).uploadedAt, status |-> Get(file).status,
             hasMarkdown |-> IsSome(Get(file).markdown),
             hasTables |-> IsSome(Get(file).csvFiles),
             tables |-> [i \in DOMAIN Tables(Get(file)) |->
                           [id |-> Tables(Get(file))[i].id,
                            filename |-> Tables(Get(file))[i].filename,
                            headers |-> Tables(Get(file))[i].headers,
                            data |-> Tables(Get(file))[i].data]]])

\* C32: handleSaveMarkdown and handleSaveCsv leave the document's id and
\* status and the number, order, ids and filenames of its tables as they
\* are; handleSaveCsv(id, ...) changes the override of the table with that id
\* only, leaves the text alone and changes nothing when no table has the id;
\* handleSaveMarkdown leaves every table alone.
C32_SaveFrame ==
  [][/\ \A csvId \in CsvIds, t \in TableInputs :
          handleSaveCsv(csvId, t.headers, t.data) =>
            /\ Fixed(currentFile') = Fixed(currentFile)
            /\ IsSome(currentFile) =>
                 /\ Get(currentFile').markdown = Get(currentFile).markdown
                 /\ \A i \in DOMAIN Tables(Get(currentFile)) :
                      Tables(Get(currentFile))[i].id # csvId =>
                        Tables(Get(currentFile'))[i] = Tables(Get(currentFile))[i]
                 /\ ~HasTable(Get(currentFile), csvId) => currentFile' = currentFile
     /\ \A content \in MarkdownInputs :
          handleSaveMarkdown(content) =>
            /\ Fixed(currentFile') = Fixed(currentFile)
            /\ IsSome(currentFile) =>
                 Get(currentFile').csvFiles = Get(currentFile).csvFiles]_vars

C32_Witness ==
  /\ IsSome(currentFile) /\ Get(currentFile).status = "completed"
  /\ toast = Some("success")
  /\ Len(Tables(Get(currentFile))) = 2
  /\ IsSome(Tables(Get(currentFile))[2].editedData)
  /\ Tables(Get(currentFile))[1].editedData = None
  /\ Get(Get(currentFile).markdown).editedContent = Some("edited")

\* The runs started so far, and the last one started
Started == {u \in Runs : pc[u] # "idle"}
LastStarted == CHOOSE u \in Started : \A v \in Started : v <= u

\* C33 as stated: once an upload has begun, the document on screen is the
\* one of the most recently started upload, whatever answers arrive for the
\* earlier ones.
C33_CurrentIsLatest ==
  Started # {} => IsCurrent(LastStarted)

\* A step of the viewer's edit buffer: a header or a cell typed, a row added
\* or deleted
EditsBuffer ==
  \/ \E value \in CellInputs : handleHeaderChange(EditedHeader, value)
  \/ \E value \in CellInputs : handleCellChange(EditedCell[1], EditedCell[2], value)
  \/ handleAddRow
  \/ \E r \in 1..MaxRows : handleDeleteRow(r)

\* C34: start edit and every change of the buffer leave the document, its
\* originals and overrides, as it is, and so does cancel, after which the
\* viewer shows the headers and rows the document gives, those it showed
\* before start edit.
C34_CancelDiscards ==
  [][/\ (handleStartEdit \/ EditsBuffer \/ handleCancel) => currentFile' = currentFile
     /\ handleStartEdit =>
          /\ viewer'.editHeaders = displayHeaders(viewer, ViewerCsv)
          /\ viewer'.editData = displayData(viewer, ViewerCsv)
     /\ handleCancel =>
          /\ ~viewer'.isEditing
          /\ displayHeaders(viewer', ViewerCsv) =
               (IF IsSome(ViewerCsv.editedHeaders) THEN Get(ViewerCsv.editedHeaders)
                ELSE ViewerCsv.headers)
          /\ displayData(viewer', ViewerCsv) =
               (IF IsSome(ViewerCsv.editedData) THEN Get(ViewerCsv.editedData)
                ELSE ViewerCsv.data)]_vars

C34_Witness ==
  /\ ViewerMounted /\ ~viewer.isEditing
  /\ IsSome(ViewerCsv.editedData)
  /\ viewer.editHeaders # <<>>
  /\ viewer.editHeaders # displayHeaders(viewer, ViewerCsv)
  /\ viewer.editData # displayData(viewer, ViewerCsv)

\* C35 as stated: while a transform of a table is in flight no save of that
\* table and no second transform of it is started, the viewer having been
\* remounted in between or not.
C35_NoOverlappingMutations ==
  [][/\ (handleSave /\ panel.selectedCsvId = FileTables[1].id) => ~tidy.isTransforming
     /\ handleTransform2Tidy => ~tidy.isTransforming]_vars

\* C36 as stated: whenever the panel renders the table viewer, some table of
\* the document on screen has the selected id; no render is given a missing
\* table.
C36_SelectionValid ==
  /\ ~panel.crashed
  /\ ViewerMounted => IsSome(FindCsv(currentFile, panel.selectedCsvId))

\* The overrides of the document on screen: the edited text and, per table,
\* the edited headers and rows
Overrides(file) ==
  IF file = None THEN None
  ELSE Some([text |-> IF IsSome(Get(file).markdown)
                      THEN Get(Get(file).markdown).editedContent ELSE None,
             tables |-> [i \in DOMAIN Tables(Get(file)) |->
                           <<Tables(Get(file))[i].editedHeaders,
                             Tables(Get(file))[i].editedData>>]])

NoneInFlight == \A u \in Runs : pc[u] \in {"idle", "done"}

\* C38: while the document on screen is processing, isProcessing is true;
\* when it is completed or in error and no upload is in flight,
\* isProcessing is false.
C38_FlagAgreesWithStatus ==
  IsSome(currentFile) =>
    /\ Get(currentFile).status = "processing" => isProcessing
    /\ (Get(currentFile).status \in {"completed", "error"} /\ NoneInFlight)
         => ~isProcessing

\* Both uploads have finished and the first one answered last: its document
\* is on screen and the flag is down
C38_Witness ==
  /\ \A u \in Runs : pc[u] = "done"
  /\ IsCurrent(1) /\ docStatus[2] \in {"completed", "error"}
  /\ ~isProcessing

\* The line breaks of a text that come after an odd number of quotes
QuotedBreaks(t) == {i \in Breaks(t) : QuotesBefore(t, i) % 2 = 1}

\* C39: every line break of the trimmed text ends a record, the breaks after
\* an odd number of quotes included, and each line gives the fields it gives
\* when it is parsed as a text of its own, whatever quotes the lines before
\* it left open.
C39_QuoteStatePerLine ==
  Parsed =>
    /\ Len(ParsedLines) = Cardinality(Breaks(ParsedText)) + 1
    /\ \A n \in 1..LineCount :
         ParsedLines[n] = parseCsvContent(NthLine(ParsedText, n)).headers

\* A first line that leaves a quote open, then a line with a comma that is
\* split in two fields
C39_Witness ==
  /\ Parsed
  /\ QuotedBreaks(ParsedText) # {}
  /\ Get(csvText) = <<"\"", "\n", "a", ",", "a">>
  /\ Get(parseResult).data = << << <<"a">>, <<"a">> >> >>
====
